---------------------------- MODULE Spec2Model ----------------------------
(***************************************************************************)
(* Control-plane cores of the repository:                                  *)
(*   - the STP bridge core        (src/06/06-stp-new/stp.c)                *)
(*   - the mOSPF router core      (src/12/12-mospf/mospf_daemon.c)         *)
(*                                                                         *)
(* Integer widths.  TLC's integers are 32-bit, so the machine is modelled  *)
(* with bytes of ByteBits bits: a u16 has 2 bytes, an int and a u32 have   *)
(* 4 bytes, a u64 has 8 bytes.  Relative widths, byte order and wrap-      *)
(* around are those of the C program; only the size of a byte is scaled.   *)
(***************************************************************************)
EXTENDS Integers, Sequences, FiniteSets, TLC

\* ------------------------------------------------------------------------
\* Bounds of the model
\* ------------------------------------------------------------------------
ByteBits == 3        \* bits of one byte of the scaled machine
MaxMac   == 3        \* interface MAC addresses 1..MaxMac (plus one that wraps)
MaxCost  == 1        \* root_path_cost carried by an injected BPDU: 0..MaxCost
MaxChan  == 1        \* BPDUs in flight on one direction of a link

\* ------------------------------------------------------------------------
\* Machine integers
\* ------------------------------------------------------------------------
Byte   == 2 ^ ByteBits
U16Mod == Byte ^ 2
U32Mod == Byte ^ 4
U64Mod == Byte ^ 8
IntMod == Byte ^ 4

Abs(x) == IF x < 0 THEN -x ELSE x

\* F applied to the value of e, which is computed once
Bind(e, F(_)) == CHOOSE r \in { F(x) : x \in {e} } : TRUE

\* conversion of an unsigned value to int: the low 4 bytes, two's complement
ToInt(x) ==
  LET m == x % IntMod
  IN  IF m >= IntMod \div 2 THEN m - IntMod ELSE m

\* C integer division (truncates toward zero), divisor > 0
CDiv(a, b) == IF a >= 0 THEN a \div b ELSE -((-a) \div b)

\* byte reversal of an n-byte value (little-endian host)
RECURSIVE Bswap(_, _)
Bswap(v, n) ==
  IF n = 0 THEN 0
  ELSE (v % Byte) * (Byte ^ (n - 1)) + Bswap(v \div Byte, n - 1)

htons(v)  == Bswap(v, 2)
ntohs(v)  == Bswap(v, 2)
htonl(v)  == Bswap(v, 4)
ntohl(v)  == Bswap(v, 4)
htonll(v) == Bswap(v, 8)
ntohll(v) == Bswap(v, 8)

\* ------------------------------------------------------------------------
\* STP: constants of stp.h as used by stp.c
\* ------------------------------------------------------------------------
STP_BRIDGE_PRIORITY == 32   \* 0x8000 of a u16, scaled: the top bit of 2 bytes
STP_PORT_PRIORITY   == 4    \* 0x80 of a u8, scaled: the top bit of 1 byte

VARIABLES
  stp,      \* stp[b]: the stp_t of bridge b (each bridge is one process)
  link,     \* link[<<b, p>>]: the port at the far end of the cable, or <<0, 0>>
  chan,     \* chan[<<b, p>>]: frames on the wire towards port p of bridge b
  rx,       \* the BPDU handled by the last step (host order), or NoRx
  sent,     \* the config BPDUs sent by the last step, in order
  instance,      \* the ustack_t of the mOSPF router: router_id, sequence_num,
                 \* iface_list (each iface with its nbr_list and num_nbr)
  nbr_changed,   \* the global flag of mospf_daemon.c
  left_interval, \* the static counter of sending_mospf_lsu_thread
  mospf_db,      \* the link-state database, in insertion order
  rtable,        \* the routing table
  spf,           \* what the last generate_rt computed: graph, dist, fault
  pkts,          \* the mOSPF packets sent by the last step, in order
  op,            \* the last mOSPF step and the packet it handled or built
  lock,          \* lock[l]: the thread that holds mutex l, or "free"
  pc,            \* pc[t]: where thread t is in its code
  since          \* since[<<i, r>>]: seconds since the last Hello of router r
                 \* on interface i, as far as they are counted

stpVars == <<stp, link, chan, rx, sent>>

mospfVars ==
  <<instance, nbr_changed, left_interval, mospf_db, rtable, spf, pkts, op>>

auxVars == <<lock, pc, since>>

vars == <<stpVars, mospfVars, auxVars>>

NoSpf == [ran |-> FALSE, rnum |-> 0, graph |-> {}, dist |-> <<>>,
          undef |-> FALSE, fault |-> FALSE]

NoOp == [kind |-> "none"]

\* no mOSPF router runs beside the bridges
MospfOff ==
  /\ instance = [router_id |-> 0, area_id |-> 0, sequence_num |-> 0,
                 iface_list |-> <<>>]
  /\ nbr_changed = 0
  /\ left_interval = 0
  /\ mospf_db = <<>>
  /\ rtable = <<>>
  /\ spf = NoSpf
  /\ pkts = <<>>
  /\ op = NoOp

\* no thread, mutex or clock is followed
AuxOff ==
  /\ lock = <<>>
  /\ pc = <<>>
  /\ since = <<>>

\* ------------------------------------------------------------------------
\* STP: bridge and port state
\* ------------------------------------------------------------------------
\* stp_init, the switch ID: the MAC in the low 6 bytes, the priority above
SwitchId(mac) == mac + STP_BRIDGE_PRIORITY * (Byte ^ 6)

PortId(i) == STP_PORT_PRIORITY * Byte + i

\* stp_port_init
stp_port_init(s, i) ==
  [ port_id           |-> PortId(i),
    path_cost         |-> 1,
    designated_root   |-> s.designated_root,
    designated_switch |-> s.switch_id,
    designated_port   |-> PortId(i),
    designated_cost   |-> s.root_path_cost ]

\* stp_init for a bridge with the given first-interface MAC and port count.
\* root_port is a port index, 0 for NULL; root is the static of
\* stp_handle_config_packet; hello_timer is TRUE while the timer is armed.
stp_init(mac, nports) ==
  LET s0 == [ switch_id       |-> SwitchId(mac),
              designated_root |-> SwitchId(mac),
              root_path_cost  |-> 0,
              root_port       |-> 0,
              hello_timer     |-> TRUE,
              root            |-> 1,
              nports          |-> nports ]
  IN  [ switch_id       |-> s0.switch_id,
        designated_root |-> s0.designated_root,
        root_path_cost  |-> s0.root_path_cost,
        root_port       |-> s0.root_port,
        hello_timer     |-> s0.hello_timer,
        root            |-> s0.root,
        nports          |-> s0.nports,
        ports           |-> [i \in 1..nports |-> stp_port_init(s0, i)] ]

stp_is_root_switch(s) == s.designated_root = s.switch_id

stp_port_is_designated(s, i) ==
  /\ s.ports[i].designated_switch = s.switch_id
  /\ s.ports[i].designated_port = s.ports[i].port_id

stp_port_state(s, i) ==
  IF s.root_port # 0 /\ s.ports[i].port_id = s.ports[s.root_port].port_id
  THEN "ROOT"
  ELSE IF /\ s.ports[i].designated_switch = s.switch_id
          /\ s.ports[i].designated_port = s.ports[i].port_id
       THEN "DESIGNATED"
       ELSE "ALTERNATE"

\* stp_port_send_config: the frames (at most one) port i puts on the wire
stp_port_send_config(s, i) ==
  IF ~stp_is_root_switch(s) /\ s.root_port = 0
  THEN <<>>
  ELSE << [ port   |-> i,
            config |-> [ root_id        |-> htonll(s.designated_root),
                         root_path_cost |-> htonl(s.root_path_cost),
                         switch_id      |-> htonll(s.switch_id),
                         port_id        |-> htons(s.ports[i].port_id) ] ] >>

RECURSIVE SendFrom(_, _)
SendFrom(s, i) ==
  IF i > s.nports THEN <<>>
  ELSE (IF stp_port_is_designated(s, i) THEN stp_port_send_config(s, i) ELSE <<>>)
       \o SendFrom(s, i + 1)

stp_send_config(s) == SendFrom(s, 1)

\* one term of get_port_priority: w * tmp / abs(tmp)
PriorityTerm(w, tmp) == IF tmp = 0 THEN 0 ELSE CDiv(w * tmp, Abs(tmp))

\* get_port_priority: config is in host order.  The differences of the u64
\* and u32 fields are stored in an int; the u16 difference is an int already.
get_port_priority(config, p) ==
  LET t1 == ToInt((config.root_id - p.designated_root) % U64Mod)
      t2 == ToInt((config.root_path_cost - p.designated_cost) % U32Mod)
      t3 == ToInt((config.switch_id - p.designated_switch) % U64Mod)
      t4 == config.port_id - p.designated_port
  IN  PriorityTerm(8, t1) + PriorityTerm(4, t2)
        + PriorityTerm(2, t3) + PriorityTerm(1, t4)

\* the conversion at the head of stp_handle_config_packet
ConfigToHost(w) ==
  [ root_id        |-> ntohll(w.root_id),
    root_path_cost |-> ntohl(w.root_path_cost),
    switch_id      |-> ntohll(w.switch_id),
    port_id        |-> ntohs(w.port_id) ]

\* the "change root port" tail of stp_handle_config_packet
ChangeRootPort(s, i, config) ==
  LET cost == (s.ports[i].designated_cost + s.ports[i].path_cost) % U32Mod
      s1   == [s EXCEPT !.root_port = i,
                        !.designated_root = config.root_id,
                        !.root_path_cost = cost]
  IN  [s1 EXCEPT !.ports =
         [k \in 1..s.nports |->
            IF s.ports[k].port_id # s.ports[i].port_id
            THEN [s.ports[k] EXCEPT !.designated_cost = s1.root_path_cost,
                                    !.designated_root = s1.designated_root]
            ELSE s.ports[k]]]

\* stp_handle_config_packet after the conversion of the BPDU to host order.
\* Result: the new bridge state and the frames sent.
HandleHostConfig(s, i, config) ==
  LET p        == s.ports[i]
      priority == get_port_priority(config, p)
  IN  IF priority > 0
      THEN [ stp |-> [s EXCEPT !.ports[i].designated_port = p.port_id,
                               !.ports[i].designated_switch = s.switch_id],
             out |-> <<>> ]
      ELSE IF priority = 0
      THEN [ stp |-> s, out |-> stp_send_config(s) ]
      ELSE
        LET s1 == IF s.root = 1
                  THEN [s EXCEPT !.root = 0, !.hello_timer = FALSE]
                  ELSE s
            s2 == [s1 EXCEPT !.ports[i].designated_port = config.port_id,
                             !.ports[i].designated_switch = config.switch_id,
                             !.ports[i].designated_cost = config.root_path_cost,
                             !.ports[i].designated_root = config.root_id]
        IN  IF /\ s2.root_port # 0
               /\ get_port_priority(config, s2.ports[s2.root_port]) >= 0
            THEN [ stp |-> s2, out |-> <<>> ]
            ELSE Bind(ChangeRootPort(s2, i, config),
                      LAMBDA s3 : [ stp |-> s3, out |-> stp_send_config(s3) ])

\* stp_handle_config_packet on port i of bridge state s, wire is the BPDU as
\* received
stp_handle_config_packet(s, i, wire) ==
  Bind(ConfigToHost(wire), LAMBDA config : HandleHostConfig(s, i, config))

\* ------------------------------------------------------------------------
\* STP: the wire
\* ------------------------------------------------------------------------
NoPort == <<0, 0>>

\* iface_send_packet for every frame of out, sent by bridge b
RECURSIVE Transmit(_, _, _, _)
Transmit(ch, lk, b, out) ==
  IF out = <<>> THEN ch
  ELSE LET peer == lk[<<b, Head(out).port>>]
           ch1  == IF peer = NoPort THEN ch
                   ELSE [ch EXCEPT ![peer] = Append(@, Head(out).config)]
       IN  Transmit(ch1, lk, b, Tail(out))

Room(ch) == \A q \in DOMAIN ch : Len(ch[q]) <= MaxChan

NoRx == [ bridge |-> 0, port |-> 0,
          config |-> [root_id |-> 0, root_path_cost |-> 0,
                      switch_id |-> 0, port_id |-> 0] ]

\* ------------------------------------------------------------------------
\* STP: actions
\* ------------------------------------------------------------------------
\* stp_port_handle_packet with a config BPDU, under stp->lock
Handle(b, i, wire) ==
  \E r \in {stp_handle_config_packet(stp[b], i, wire)} :
    /\ stp'  = [stp EXCEPT ![b] = r.stp]
    /\ rx'   = [bridge |-> b, port |-> i, config |-> ConfigToHost(wire)]
    /\ sent' = r.out

\* a frame taken off the wire at port i of bridge b
Deliver(b, i) ==
  /\ chan[<<b, i>>] # <<>>
  /\ Handle(b, i, Head(chan[<<b, i>>]))
  /\ chan' = Transmit([chan EXCEPT ![<<b, i>>] = Tail(@)], link, b, sent')
  /\ Room(chan')
  /\ UNCHANGED <<link, mospfVars, auxVars>>

\* stp_timer_run_once finds the hello timer due: stp_handle_hello_timeout
HelloTimeout(b) ==
  /\ stp[b].hello_timer
  /\ sent' = stp_send_config(stp[b])
  /\ chan' = Transmit(chan, link, b, sent')
  /\ Room(chan')
  /\ rx' = NoRx
  /\ UNCHANGED <<stp, link, mospfVars, auxVars>>

\* the BPDUs a test or a neighbour can put on a port: the root is any bridge
\* (one MAC differs from MAC 1 by exactly 2^32 scaled), the sender is a bridge
\* with a lower or a higher MAC than the receiver, sending from its port 1
MacIds == (1..MaxMac) \cup {IntMod + 1}

SenderMacs == {1, MaxMac}

InjectedConfigs ==
  { [ root_id        |-> htonll(SwitchId(r)),
      root_path_cost |-> htonl(c),
      switch_id      |-> htonll(SwitchId(w)),
      port_id        |-> htons(PortId(q)) ] :
      r \in MacIds, c \in 0..MaxCost, w \in SenderMacs, q \in {1} }

\* a config BPDU arrives on port i of bridge b from outside the model
Inject(b, i) ==
  /\ \E wire \in InjectedConfigs : Handle(b, i, wire)
  /\ UNCHANGED <<link, chan, mospfVars, auxVars>>

\* ------------------------------------------------------------------------
\* SpecStp: one bridge with two ports, BPDUs injected on its ports
\* ------------------------------------------------------------------------
InitStp ==
  /\ \E mac \in {2, IntMod + 1} : stp = [b \in {1} |-> stp_init(mac, 2)]
  /\ link = [q \in {<<1, 1>>, <<1, 2>>} |-> NoPort]
  /\ chan = [q \in {<<1, 1>>, <<1, 2>>} |-> <<>>]
  /\ rx   = NoRx
  /\ sent = <<>>
  /\ MospfOff
  /\ AuxOff

NextStp ==
  \/ \E i \in 1..2 : Inject(1, i)
  \/ HelloTimeout(1)

SpecStp == InitStp /\ [][NextStp]_vars

\* ------------------------------------------------------------------------
\* SpecNet: three bridges in a line, 1 -- 2 -- 3, every bridge starts as root
\* ------------------------------------------------------------------------
NetPorts == {<<1, 1>>, <<2, 1>>, <<2, 2>>, <<3, 1>>}

NetLink ==
  [q \in NetPorts |->
     CASE q = <<1, 1>> -> <<2, 1>>
       [] q = <<2, 1>> -> <<1, 1>>
       [] q = <<2, 2>> -> <<3, 1>>
       [] q = <<3, 1>> -> <<2, 2>>]

NetNPorts(b) == IF b = 2 THEN 2 ELSE 1

MacAssignments ==
  { m \in [1..3 -> 1..MaxMac] : \A a, b \in 1..3 : a # b => m[a] # m[b] }

InitNet ==
  /\ \E m \in MacAssignments :
       stp = [b \in 1..3 |-> stp_init(m[b], NetNPorts(b))]
  /\ link = NetLink
  /\ chan = [q \in NetPorts |-> <<>>]
  /\ rx   = NoRx
  /\ sent = <<>>
  /\ MospfOff
  /\ AuxOff

NextNet ==
  \/ \E q \in NetPorts : Deliver(q[1], q[2])
  \/ \E b \in 1..3 : HelloTimeout(b)

SpecNet == InitNet /\ [][NextNet]_vars

\* Every frame on the wire is delivered and every armed hello timer fires.
\* Deliver and HelloTimeout wait while the wire ahead is full (MaxChan), which
\* only the model does, so fairness is strong: a frame that can be delivered
\* again and again is delivered.
FairSpecNet ==
  /\ SpecNet
  /\ \A q \in NetPorts : SF_vars(Deliver(q[1], q[2]))
  /\ \A b \in 1..3 : SF_vars(HelloTimeout(b))


\* ------------------------------------------------------------------------
\* STP claims
\* ------------------------------------------------------------------------
RootPorts(s) == { i \in 1..s.nports : stp_port_state(s, i) = "ROOT" }

Quiet == \A q \in DOMAIN chan : chan[q] = <<>>

\* C1: a non-root bridge (designated_root # switch_id) has exactly one port
\* in the ROOT role, which is its root_port; a root bridge has none and its
\* root_port is NULL.
C1_OneRootPort ==
  \A b \in DOMAIN stp :
    LET s == stp[b]
    IN  /\ s.designated_root # s.switch_id =>
             /\ Cardinality(RootPorts(s)) = 1
             /\ RootPorts(s) = {s.root_port}
        /\ s.designated_root = s.switch_id =>
             /\ RootPorts(s) = {}
             /\ s.root_port = 0

\* C2: once every BPDU sent has been handled, a non-root bridge has
\* root_path_cost = root_port.designated_cost + root_port.path_cost and a
\* root bridge has root_path_cost = 0.
C2_RootPathCost ==
  Quiet =>
    \A b \in DOMAIN stp :
      LET s == stp[b]
      IN  /\ (s.designated_root # s.switch_id /\ s.root_port # 0) =>
               s.root_path_cost =
                 (s.ports[s.root_port].designated_cost
                    + s.ports[s.root_port].path_cost) % U32Mod
          /\ s.designated_root = s.switch_id => s.root_path_cost = 0


MinSwitchId == CHOOSE m \in { stp[b].switch_id : b \in DOMAIN stp } :
                 \A b \in DOMAIN stp : m <= stp[b].switch_id

Converged ==
  \A b \in DOMAIN stp :
    LET s == stp[b]
    IN  /\ s.designated_root = MinSwitchId
        /\ s.switch_id = MinSwitchId => s.root_port = 0
        /\ s.switch_id # MinSwitchId => Cardinality(RootPorts(s)) = 1

\* C3: in a connected network in which every bridge starts as root, every
\* BPDU sent is delivered and handled and the hello timers fire, eventually
\* every bridge has the smallest switch_id as designated_root, that bridge
\* alone has no root port and every other bridge has exactly one.
C3_Converges == <>Converged


\* the priority vectors the protocol compares, as unsigned integers
ConfigQuad(c) == <<c.root_id, c.root_path_cost, c.switch_id, c.port_id>>

PortQuad(p) ==
  <<p.designated_root, p.designated_cost, p.designated_switch, p.designated_port>>

LexLess(x, y) ==
  \E k \in 1..4 : x[k] < y[k] /\ \A j \in 1..(k - 1) : x[j] = y[j]

TimesSentFrom(out, k) == Cardinality({ n \in 1..Len(out) : out[n].port = k })

\* C8: when a root bridge (root_port NULL) handles on port P a config BPDU
\* strictly better than the stored quadruple of every port, then afterwards
\* designated_root = BPDU.root_id # switch_id, root_port = P, root_path_cost =
\* P.designated_cost + P.path_cost, and every other port carries the bridge's
\* designated_root and root_path_cost.
C8_BetterBpduElectsRootPort ==
  [][ (/\ rx'.bridge # 0
       /\ stp[rx'.bridge].root_port = 0
       /\ stp[rx'.bridge].designated_root = stp[rx'.bridge].switch_id
       /\ \A k \in 1..stp[rx'.bridge].nports :
            LexLess(ConfigQuad(rx'.config), PortQuad(stp[rx'.bridge].ports[k])))
      =>
      LET t == stp'[rx'.bridge]
          P == rx'.port
      IN  /\ t.designated_root = rx'.config.root_id
          /\ t.designated_root # t.switch_id
          /\ t.root_port = P
          /\ t.root_path_cost =
               (t.ports[P].designated_cost + t.ports[P].path_cost) % U32Mod
          /\ \A k \in (1..t.nports) \ {P} :
               /\ t.ports[k].designated_root = t.designated_root
               /\ t.ports[k].designated_cost = t.root_path_cost ]_vars

\* C9: handling a BPDU equal to the receiving port's stored quadruple sends
\* exactly one config BPDU from every port designated at that moment and
\* none from any other port; handling a BPDU worse than the stored quadruple
\* sends nothing.
C9_EqualFloodsWorseIsSilent ==
  [][ rx'.bridge # 0 =>
      LET s == stp[rx'.bridge]
          p == s.ports[rx'.port]
      IN  /\ ConfigQuad(rx'.config) = PortQuad(p) =>
               \A k \in 1..s.nports :
                 TimesSentFrom(sent', k) =
                   IF stp_port_is_designated(s, k) THEN 1 ELSE 0
          /\ LexLess(PortQuad(p), ConfigQuad(rx'.config)) => sent' = <<>> ]_vars

\* ------------------------------------------------------------------------
\* mOSPF: constants of the companion headers (scaled), addresses
\* ------------------------------------------------------------------------
LsuInt     == 2     \* seconds between two periodic LSU emissions
NbrTimeout == 2     \* seconds a neighbour lives without a Hello
MaxEmit    == 2     \* self-LSU emissions of one run

MOSPF_DEFAULT_LSUINT   == LsuInt
MOSPF_NEIGHBOR_TIMEOUT == NbrTimeout
MOSPF_MAX_LSU_TTL      == Byte - 1
DEFAULT_TTL            == Byte \div 2
MAX_DIST               == U16Mod - 1
BAD_GW                 == U32Mod - 1

Min(S) == CHOOSE k \in S : \A m \in S : k <= m

Max(S) == CHOOSE k \in S : \A m \in S : k >= m

\* a & b on n bits
RECURSIVE BitAnd(_, _, _)
BitAnd(a, b, n) ==
  IF n = 0 THEN 0
  ELSE (a % 2) * (b % 2) + 2 * BitAnd(a \div 2, b \div 2, n - 1)

And32(a, b) == BitAnd(a, b, 4 * ByteBits)

\* the mask of a subnet whose host part is the last byte
Mask24 == U32Mod - Byte

\* the k-th subnet
Net(k) == k * Byte

Iface(ip, mac) ==
  [ip |-> ip, mask |-> Mask24, mac |-> mac, num_nbr |-> 0, nbr_list |-> <<>>]

Nbr(id, ip) ==
  [nbr_id |-> id, nbr_ip |-> ip, nbr_mask |-> Mask24,
   alive |-> MOSPF_NEIGHBOR_TIMEOUT]

\* ------------------------------------------------------------------------
\* mOSPF: neighbours
\* ------------------------------------------------------------------------
mospf_init(ifaces) ==
  [router_id    |-> ifaces[1].ip,
   area_id      |-> 0,
   sequence_num |-> 0,
   iface_list   |-> [i \in DOMAIN ifaces |->
                       [ifaces[i] EXCEPT !.nbr_list = <<>>]]]

\* a Hello as it is on the wire
HelloPacket(rid, ip, mask) ==
  [rid |-> htonl(rid), saddr |-> htonl(ip), mask |-> htonl(mask)]

handle_mospf_hello(inst, chg, i, pkt) ==
  LET l   == inst.iface_list[i].nbr_list
      hit == { n \in 1..Len(l) : l[n].nbr_id = ntohl(pkt.rid) }
  IN  IF hit # {}
      THEN [instance |->
              [inst EXCEPT !.iface_list[i].nbr_list[Min(hit)].alive =
                             MOSPF_NEIGHBOR_TIMEOUT],
            nbr_changed |-> chg]
      ELSE [instance |->
              [inst EXCEPT
                 !.iface_list[i].nbr_list =
                    Append(@, [nbr_id   |-> ntohl(pkt.rid),
                               nbr_ip   |-> ntohl(pkt.saddr),
                               nbr_mask |-> ntohl(pkt.mask),
                               alive    |-> MOSPF_NEIGHBOR_TIMEOUT]),
                 !.iface_list[i].num_nbr = @ + 1],
            nbr_changed |-> 1]

\* an ageing pass that unlinks a neighbour one tick late, when its counter
\* has gone below zero
AgeIfaceLate(f) ==
  LET aged == [n \in 1..Len(f.nbr_list) |->
                 [f.nbr_list[n] EXCEPT !.alive = @ - 1]]
      kept == SelectSeq(aged, LAMBDA x : x.alive >= 0)
  IN  [f EXCEPT !.nbr_list = kept,
                !.num_nbr  = @ - (Len(aged) - Len(kept))]

\* one pass of checking_nbr_thread over the neighbours of one interface
AgeIface(f) ==
  LET aged == [n \in 1..Len(f.nbr_list) |->
                 [f.nbr_list[n] EXCEPT !.alive = @ - 1]]
      kept == SelectSeq(aged, LAMBDA x : x.alive # 0)
  IN  [f EXCEPT !.nbr_list = kept,
                !.num_nbr  = @ - (Len(aged) - Len(kept))]

\* an ageing pass that unlinks neighbours without raising nbr_changed
AgeSilently(inst, chg) ==
  [instance    |-> [inst EXCEPT !.iface_list =
                      [i \in DOMAIN inst.iface_list |->
                         AgeIface(inst.iface_list[i])]],
   nbr_changed |-> chg]

checking_nbr_thread(inst, chg) ==
  LET fs == [i \in DOMAIN inst.iface_list |-> AgeIface(inst.iface_list[i])]
  IN  [instance    |-> [inst EXCEPT !.iface_list = fs],
       nbr_changed |->
         IF \E i \in DOMAIN fs :
              Len(fs[i].nbr_list) # Len(inst.iface_list[i].nbr_list)
         THEN 1 ELSE chg]

\* ------------------------------------------------------------------------
\* mOSPF: the LSU emitter
\* ------------------------------------------------------------------------
IfaceLsas(f) ==
  IF f.nbr_list = <<>>
  THEN << [subnet |-> And32(f.ip, f.mask), mask |-> f.mask, rid |-> 0] >>
  ELSE [n \in 1..Len(f.nbr_list) |->
          [subnet |-> And32(f.nbr_list[n].nbr_ip, f.nbr_list[n].nbr_mask),
           mask   |-> f.nbr_list[n].nbr_mask,
           rid    |-> f.nbr_list[n].nbr_id]]

RECURSIVE LsaList(_, _)
LsaList(ifaces, k) ==
  IF k > Len(ifaces) THEN <<>>
  ELSE IfaceLsas(ifaces[k]) \o LsaList(ifaces, k + 1)

\* a count of one LSA per interface
NadvPerIface(ifaces, k) == Len(ifaces) - k + 1

RECURSIVE Nadv(_, _)
Nadv(ifaces, k) ==
  IF k > Len(ifaces) THEN 0
  ELSE (IF ifaces[k].num_nbr = 0 THEN 1 ELSE ifaces[k].num_nbr)
         + Nadv(ifaces, k + 1)

\* an emitter that stores every self-LSU as a new entry
UpsertAppend(db, rid, seq, nadv, array) ==
  Append(db, [rid |-> rid, seq |-> seq, nadv |-> nadv,
              array |-> array, defined |-> TRUE])

\* the local entry is overwritten where it is, or appended
UpsertLocal(db, rid, seq, nadv, array) ==
  LET hit == { k \in 1..Len(db) : db[k].rid = rid }
  IN  IF hit # {}
      THEN [db EXCEPT ![Min(hit)] =
              [@ EXCEPT !.array = array, !.seq = seq, !.nadv = nadv,
                        !.defined = TRUE]]
      ELSE Append(db, [rid |-> rid, seq |-> seq, nadv |-> nadv,
                       array |-> array, defined |-> TRUE])

WireLsa(a) ==
  [subnet |-> htonl(a.subnet), mask |-> htonl(a.mask), rid |-> htonl(a.rid)]

HostLsa(a) ==
  [subnet |-> ntohl(a.subnet), mask |-> ntohl(a.mask), rid |-> ntohl(a.rid)]

\* the LSU packet before the per-neighbour fields are filled in
LsuPacket(rid, seq, ttl, nadv, array) ==
  [rid    |-> htonl(rid),
   seq    |-> htons(seq),
   ttl    |-> ttl,
   ip_ttl |-> DEFAULT_TTL,
   nadv   |-> htonl(nadv),
   lsas   |-> [n \in 1..nadv |-> WireLsa(array[n])],
   saddr  |-> 0,
   daddr  |-> 0,
   shost  |-> 0]

\* the (interface, neighbour) pairs in list order, interface skip left out
RECURSIVE Targets(_, _, _)
Targets(ifaces, skip, k) ==
  IF k > Len(ifaces) THEN <<>>
  ELSE (IF k = skip THEN <<>>
        ELSE [n \in 1..Len(ifaces[k].nbr_list) |-> [iface |-> k, nbr |-> n]])
       \o Targets(ifaces, skip, k + 1)

sending_mospf_lsu(inst, db) ==
  LET nadv  == Nadv(inst.iface_list, 1)
      array == LsaList(inst.iface_list, 1)
      db2   == UpsertLocal(db, inst.router_id, inst.sequence_num, nadv, array)
      seq   == (inst.sequence_num + 1) % U16Mod
      lsu   == LsuPacket(inst.router_id, seq, MOSPF_MAX_LSU_TTL, nadv, array)
      T     == Targets(inst.iface_list, 0, 1)
  IN  [instance |-> [inst EXCEPT !.sequence_num = seq],
       mospf_db |-> db2,
       lsu      |-> lsu,
       pkts     |->
         [n \in 1..Len(T) |->
            [iface |-> T[n].iface,
             pkt   |->
               [lsu EXCEPT
                  !.saddr = htonl(inst.iface_list[T[n].iface].ip),
                  !.daddr = htonl(inst.iface_list[T[n].iface]
                                    .nbr_list[T[n].nbr].nbr_ip),
                  !.shost = inst.iface_list[T[n].iface].mac]]]]

\* ------------------------------------------------------------------------
\* mOSPF: LSU ingestion and flooding
\* ------------------------------------------------------------------------
\* the copies are made from the received buffer, whose Ethernet source is
\* overwritten after each copy is taken
Flood(inst, i, pkt, fwd) ==
  LET T == Targets(inst.iface_list, i, 1)
  IN  [n \in 1..Len(T) |->
         [iface |-> T[n].iface,
          pkt   |->
            [fwd EXCEPT
               !.daddr = htonl(inst.iface_list[T[n].iface]
                                 .nbr_list[T[n].nbr].nbr_ip),
               !.saddr = htonl(inst.iface_list[T[n].iface].ip),
               !.shost = IF n = 1 THEN pkt.shost
                         ELSE inst.iface_list[T[n - 1].iface].mac]]]

handle_mospf_lsu(inst, db, i, pkt) ==
  LET rid == ntohl(pkt.rid)
      hit == { k \in 1..Len(db) : db[k].rid = rid }
      db1 == IF hit = {}
             THEN Append(db, [rid |-> rid, seq |-> 0, nadv |-> 0,
                              array |-> <<>>, defined |-> FALSE])
             ELSE db
      k   == IF hit = {} THEN Len(db1) ELSE Min(hit)
  IN  IF db1[k].seq < ntohs(pkt.seq)
      THEN [mospf_db |->
              [db1 EXCEPT ![k] =
                 [rid     |-> rid,
                  seq     |-> ntohs(pkt.seq),
                  nadv    |-> ntohl(pkt.nadv),
                  array   |-> [n \in 1..ntohl(pkt.nadv) |->
                                 HostLsa(pkt.lsas[n])],
                  defined |-> TRUE]],
            pkts |-> Flood(inst, i, pkt,
                           [pkt EXCEPT !.ttl    = (@ - 1) % U16Mod,
                                       !.ip_ttl = (@ - 1) % Byte])]
      ELSE [mospf_db |-> db1, pkts |-> <<>>]

\* ------------------------------------------------------------------------
\* mOSPF: generate_rt
\* ------------------------------------------------------------------------
gw_to_iface(ifaces, gw) ==
  LET hit == { i \in 1..Len(ifaces) :
                 \E n \in 1..Len(ifaces[i].nbr_list) :
                   ifaces[i].nbr_list[n].nbr_id = gw }
  IN  IF hit = {} THEN 0 ELSE Min(hit)

subnet_to_iface(ifaces, subnet) ==
  LET hit == { i \in 1..Len(ifaces) :
                 And32(ifaces[i].ip, ifaces[i].mask) = subnet }
  IN  IF hit = {} THEN 0 ELSE Min(hit)

\* clear_rtable, init_rtable: the table is empty again
init_rtable == <<>>

\* a zeroed row with the four fields set
new_rt_entry(dest, mask, gw, iface) ==
  [dest |-> dest, mask |-> mask, gw |-> gw, iface |-> iface, dist |-> 0]

add_rt_entry(rt, row) == Append(rt, row)

\* the value of j after the inner loop: the 0-based index of the first entry
\* with this rid, or rnum when there is none
DbIndex(db, rid) ==
  LET hit == { k \in 1..Len(db) : db[k].rid = rid }
  IN  IF hit = {} THEN Len(db) ELSE Min(hit) - 1

\* the offsets k * rnum + j of the u32 cells that graph[k][j] = 1 writes in
\* the rnum * rnum block
GraphWrites(db) ==
  UNION { { (k - 1) * Len(db) + DbIndex(db, db[k].array[i].rid) :
              i \in 1..db[k].nadv } : k \in 1..Len(db) }

\* graph[a][b] for 1-based a and b, read from the block
GraphCell(cells, rnum, a, b) ==
  IF ((a - 1) * rnum + (b - 1)) \in cells THEN 1 ELSE 0

InitDist(db, inst, self) ==
  [k \in 1..Len(db) |->
     IF db[k].rid = inst.router_id
     THEN [rid |-> db[k].rid, visited |-> 1, dist |-> 0, gw |-> 0]
     ELSE IF \E i \in 1..db[self].nadv : db[self].array[i].rid = db[k].rid
          THEN [rid |-> db[k].rid, visited |-> 0, dist |-> 1,
                gw |-> db[k].rid]
          ELSE [rid |-> db[k].rid, visited |-> 0, dist |-> MAX_DIST,
                gw |-> BAD_GW]]

\* the first unvisited router with the least dist below MAX_DIST, or the
\* first router when there is none
ClosestUnvisited(dist) ==
  LET cand == { j \in 1..Len(dist) :
                  dist[j].visited = 0 /\ dist[j].dist < MAX_DIST }
      best == { j \in cand : \A m \in cand : dist[j].dist <= dist[m].dist }
  IN  IF cand = {} THEN 1 ELSE Min(best)

Relax(dist, cells, min_j) ==
  LET d1 == [dist EXCEPT ![min_j].visited = 1]
  IN  [j \in 1..Len(d1) |->
         IF /\ GraphCell(cells, Len(d1), min_j, j) # 0
            /\ d1[j].visited = 0
            /\ GraphCell(cells, Len(d1), min_j, j) + d1[min_j].dist
                 < d1[j].dist
         THEN [d1[j] EXCEPT
                 !.dist = GraphCell(cells, Len(d1), min_j, j)
                            + d1[min_j].dist,
                 !.gw   = IF d1[min_j].gw # 0 THEN d1[min_j].gw
                          ELSE d1[min_j].rid]
         ELSE d1[j]]

\* n more rounds of the main loop
RECURSIVE Dijkstra(_, _, _)
Dijkstra(dist, cells, n) ==
  IF n <= 0 THEN dist
  ELSE Dijkstra(Relax(dist, cells, ClosestUnvisited(dist)), cells, n - 1)

\* the table after one LSA of the entry with distance record d
RowFor(rt, lsa, d, ifaces) ==
  LET hit == { r \in 1..Len(rt) : rt[r].dest = lsa.subnet }
      via == IF d.gw # 0 THEN gw_to_iface(ifaces, d.gw)
             ELSE subnet_to_iface(ifaces, lsa.subnet)
  IN  IF hit # {}
      THEN IF rt[Min(hit)].dist > d.dist
           THEN [rt EXCEPT ![Min(hit)] =
                   [@ EXCEPT !.dist  = d.dist,
                             !.gw    = d.gw,
                             !.iface = via,
                             !.mask  = IF via = 0 THEN @
                                       ELSE ifaces[via].mask]]
           ELSE rt
      ELSE IF gw_to_iface(ifaces, d.gw) = 0
           THEN IF d.gw # 0 THEN rt
                ELSE add_rt_entry(rt,
                       new_rt_entry(lsa.subnet, lsa.mask, 0,
                                    subnet_to_iface(ifaces, lsa.subnet)))
           ELSE add_rt_entry(rt,
                  [new_rt_entry(lsa.subnet, ifaces[via].mask, d.gw, via)
                     EXCEPT !.dist = d.dist])

RECURSIVE BuildRows(_, _, _, _, _, _)
BuildRows(rt, db, dist, ifaces, j, i) ==
  IF j > Len(db) THEN rt
  ELSE IF i > db[j].nadv THEN BuildRows(rt, db, dist, ifaces, j + 1, 1)
  ELSE BuildRows(RowFor(rt, db[j].array[i], dist[j], ifaces),
                 db, dist, ifaces, j, i + 1)

\* generate_rt reads an entry whose nadv and array were never set, or
\* writes graph[rnum - 1][rnum], past the end of the array
SpfUndefined(db) ==
  \/ \E k \in 1..Len(db) : ~ db[k].defined
  \/ (Len(db) * Len(db)) \in GraphWrites(db)

\* the run in which every read and write has its meaning: a write one cell
\* past the block, if any, lands where nothing is read again
SpfRun(db, inst) ==
  LET rnum  == Len(db)
      self  == Max({ k \in 1..rnum : db[k].rid = inst.router_id })
      cells == { c \in GraphWrites(db) : c < rnum * rnum }
      dist  == Dijkstra(InitDist(db, inst, self), cells, rnum - 1)
  IN  [rtable |-> BuildRows(init_rtable, db, dist, inst.iface_list, 1, 1),
       spf    |-> [ran |-> TRUE, rnum |-> rnum, graph |-> cells,
                   dist |-> dist, undef |-> SpfUndefined(db),
                   fault |-> FALSE]]

\* the outcomes of generate_rt: without a local entry it returns after
\* init_rtable; undefined behaviour either goes unnoticed or ruins the run
generate_rt(db, inst) ==
  IF \A k \in 1..Len(db) : db[k].rid # inst.router_id
  THEN { [rtable |-> init_rtable, spf |-> NoSpf] }
  ELSE { SpfRun(db, inst) }
       \cup ( IF SpfUndefined(db)
              THEN { [rtable |-> init_rtable,
                      spf    |-> [NoSpf EXCEPT !.ran = TRUE, !.undef = TRUE,
                                                !.fault = TRUE]] }
              ELSE {} )

\* ------------------------------------------------------------------------
\* mOSPF: actions (each runs under mospf_lock)
\* ------------------------------------------------------------------------
\* handle_mospf_hello under mospf_lock
HelloStep(i, pkt) ==
  \E r \in {handle_mospf_hello(instance, nbr_changed, i, pkt)} :
    /\ instance' = r.instance
    /\ nbr_changed' = r.nbr_changed
    /\ pkts' = <<>>
    /\ op' = [kind |-> "hello", iface |-> i, pkt |-> pkt]
    /\ UNCHANGED <<left_interval, mospf_db, rtable, spf, stpVars>>

\* handle_mospf_packet with a Hello on interface i
RecvHello(i, pkt) == HelloStep(i, pkt) /\ UNCHANGED auxVars

\* the loop body of checking_nbr_thread under mospf_lock
TickStep ==
  \E r \in {checking_nbr_thread(instance, nbr_changed)} :
    /\ instance' = r.instance
    /\ nbr_changed' = r.nbr_changed
    /\ pkts' = <<>>
    /\ op' = [kind |-> "age"]
    /\ UNCHANGED <<left_interval, mospf_db, rtable, spf, stpVars>>

\* one second of checking_nbr_thread
NbrTick == TickStep /\ UNCHANGED auxVars

\* sending_mospf_lsu_thread: one more second in the wait loop
WaitStep ==
  /\ nbr_changed = 0
  /\ left_interval - 1 # 0
  /\ left_interval' = left_interval - 1
  /\ pkts' = <<>>
  /\ op' = [kind |-> "wait"]
  /\ UNCHANGED <<instance, nbr_changed, mospf_db, rtable, spf, stpVars>>

LsuWait == WaitStep /\ UNCHANGED auxVars

\* sending_mospf_lsu_thread: the wait loop ends, the self-LSU is stored and
\* sent, generate_rt runs
EmitStep ==
  /\ nbr_changed # 0 \/ left_interval - 1 = 0
  /\ \E r \in {sending_mospf_lsu(instance, mospf_db)} :
       /\ instance' = r.instance
       /\ mospf_db' = r.mospf_db
       /\ pkts' = r.pkts
       /\ op' = [kind |-> "emit", lsu |-> r.lsu]
       /\ \E g \in generate_rt(r.mospf_db, r.instance) :
            /\ rtable' = g.rtable
            /\ spf' = g.spf
  /\ nbr_changed' = 0
  /\ left_interval' = MOSPF_DEFAULT_LSUINT
  /\ UNCHANGED stpVars

\* an emission of a run that is followed for MaxEmit emissions
LsuEmit ==
  /\ instance.sequence_num < MaxEmit
  /\ EmitStep
  /\ UNCHANGED auxVars

\* handle_mospf_lsu under mospf_lock
LsuStep(i, pkt) ==
  \E r \in {handle_mospf_lsu(instance, mospf_db, i, pkt)} :
    /\ mospf_db' = r.mospf_db
    /\ pkts' = r.pkts
    /\ op' = [kind |-> "lsu", iface |-> i, pkt |-> pkt]
    /\ UNCHANGED <<instance, nbr_changed, left_interval, rtable, spf,
                   stpVars>>

\* handle_mospf_packet with an LSU on interface i
RecvLsu(i, pkt) == LsuStep(i, pkt) /\ UNCHANGED auxVars

StpOff ==
  /\ stp = <<>>
  /\ link = <<>>
  /\ chan = <<>>
  /\ rx = NoRx
  /\ sent = <<>>

\* ------------------------------------------------------------------------
\* mOSPF: the routers of a line R0 - R1 - R2 - ..., seen from R0
\* ------------------------------------------------------------------------
\* router r has its first interface on Net(r + 1) towards r - 1 and its
\* second on Net(r + 2) towards r + 1; R0's first interface is the one
\* towards R1 and its second is a stub on Net(1)
LeftIp(r)  == Net(r + 1) + 2

RightIp(r) == Net(r + 2) + 1

Rid(r) == IF r = 0 THEN RightIp(0) ELSE LeftIp(r)

R0Ifaces == << Iface(RightIp(0), 1), Iface(Net(1) + 1, 2) >>

\* the interfaces of router r >= 1 in a line of n routers, neighbours heard
LineIfaces(r, n) ==
  << [Iface(LeftIp(r), 1) EXCEPT
        !.nbr_list = << Nbr(Rid(r - 1), RightIp(r - 1)) >>, !.num_nbr = 1],
     IF r < n - 1
     THEN [Iface(RightIp(r), 2) EXCEPT
             !.nbr_list = << Nbr(Rid(r + 1), LeftIp(r + 1)) >>,
             !.num_nbr = 1]
     ELSE Iface(RightIp(r), 2) >>

\* the self-LSU with sequence number seq of router r in a line of n routers,
\* as R1 hands it to R0
LineLsu(r, n, seq, ttl) ==
  [LsuPacket(Rid(r), seq, ttl,
             Nadv(LineIfaces(r, n), 1), LsaList(LineIfaces(r, n), 1))
     EXCEPT !.saddr = htonl(LeftIp(1)),
            !.daddr = htonl(RightIp(0)),
            !.shost = 3]

InitMospf ==
  /\ instance = mospf_init(R0Ifaces)
  /\ nbr_changed = 0
  /\ left_interval = MOSPF_DEFAULT_LSUINT
  /\ mospf_db = <<>>
  /\ rtable = init_rtable
  /\ spf = NoSpf
  /\ pkts = <<>>
  /\ op = NoOp
  /\ StpOff
  /\ AuxOff

\* R1 is heard on the first interface, two routers on the second
HelloInputs(i) ==
  IF i = 1 THEN { HelloPacket(Rid(1), LeftIp(1), Mask24) }
  ELSE { HelloPacket(Net(1) + h, Net(1) + h, Mask24) : h \in 2..3 }

\* LSUs of R1 with sequence numbers 0 and 1, with the ttl they have at
\* the origin and at the end of their life
LsuInputs ==
  { LineLsu(1, 3, seq, ttl) :
      seq \in 0..1, ttl \in {0, MOSPF_MAX_LSU_TTL} }

NextMospf ==
  \/ \E i \in 1..2 : \E pkt \in HelloInputs(i) : RecvHello(i, pkt)
  \/ NbrTick
  \/ LsuWait
  \/ LsuEmit
  \/ \E pkt \in LsuInputs : RecvLsu(1, pkt)

SpecMospf == InitMospf /\ [][NextMospf]_vars

\* the line grows from three routers to four: R2's first LSU has a stub on
\* its second interface, its second LSU has R3 there
LineLsus ==
  { LineLsu(1, 3, 1, MOSPF_MAX_LSU_TTL),
    LineLsu(2, 3, 1, MOSPF_MAX_LSU_TTL - 1),
    LineLsu(2, 4, 2, MOSPF_MAX_LSU_TTL - 1),
    LineLsu(3, 4, 1, MOSPF_MAX_LSU_TTL - 2) }

NextRT ==
  \/ \E pkt \in HelloInputs(1) : RecvHello(1, pkt)
  \/ LsuWait
  \/ LsuEmit
  \/ \E pkt \in LineLsus : RecvLsu(1, pkt)

SpecRT == InitMospf /\ [][NextRT]_vars

\* ------------------------------------------------------------------------
\* mOSPF claims
\* ------------------------------------------------------------------------
LocalEntries ==
  { k \in 1..Len(mospf_db) : mospf_db[k].rid = instance.router_id }

\* C4: right after a self-LSU emission the local LSDB entry has
\* seq = instance.sequence_num, and that is the seq the emitted LSU carries
\* on the wire.
C4_LocalSeqIsSequenceNum ==
  op.kind = "emit" =>
    /\ \A k \in LocalEntries : mospf_db[k].seq = instance.sequence_num
    /\ ntohs(op.lsu.seq) = instance.sequence_num

\* the seq stored for a rid, 0 when the rid has no entry
StoredSeq(db, rid) ==
  LET hit == { k \in 1..Len(db) : db[k].rid = rid }
  IN  IF hit = {} THEN 0 ELSE db[Min(hit)].seq

\* C5: an LSU whose seq is less than or equal to the stored seq of its rid
\* (0 for a rid without entry) leaves the LSDB as it was and sends no packet.
C5_StaleLsuChangesNothing ==
  [][ ( /\ op'.kind = "lsu"
        /\ ntohs(op'.pkt.seq) <= StoredSeq(mospf_db, ntohl(op'.pkt.rid)) )
      => ( mospf_db' = mospf_db /\ pkts' = <<>> ) ]_vars

\* entry a advertises the router of entry b as a neighbour
DbEdge(db, a, b) ==
  \E i \in 1..db[a].nadv : db[a].array[i].rid = db[b].rid

\* C6: a cell graph[k][j] of the adjacency matrix is 1 only if the entry at
\* index k has an LSA whose rid is the rid of the entry at index j; stub
\* LSAs and LSAs of unknown routers set no cell.  (Stated for the runs of
\* generate_rt that stay inside the array.)
C6_GraphCellsAreLsas ==
  (op.kind = "emit" /\ spf.ran /\ ~ spf.undef) =>
    \A c \in spf.graph :
      DbEdge(mospf_db, (c \div spf.rnum) + 1, (c % spf.rnum) + 1)

\* the entries within n hops of entry a
RECURSIVE Within(_, _, _)
Within(db, a, n) ==
  IF n = 0 THEN {a}
  ELSE LET W == Within(db, a, n - 1)
       IN  W \cup { b \in 1..Len(db) : \E w \in W : DbEdge(db, w, b) }

Hops(db, a, b) == Min({ n \in 0..Len(db) : b \in Within(db, a, n) })

\* every entry is complete, no rid occurs twice, and every adjacency is
\* advertised from both ends
SymmetricDb(db) ==
  /\ \A k \in 1..Len(db) : db[k].defined
  /\ \A a, b \in 1..Len(db) : db[a].rid = db[b].rid => a = b
  /\ \A a \in 1..Len(db) : \A i \in 1..db[a].nadv :
       db[a].array[i].rid # 0 =>
         \E b \in 1..Len(db) :
           db[b].rid = db[a].array[i].rid /\ DbEdge(db, b, a)

ConnectedDb(db) ==
  \A a, b \in 1..Len(db) : b \in Within(db, a, Len(db))

Advertisers(db, s) ==
  { k \in 1..Len(db) : \E i \in 1..db[k].nadv : db[k].array[i].subnet = s }

Subnets(db) ==
  UNION { { db[k].array[i].subnet : i \in 1..db[k].nadv } :
            k \in 1..Len(db) }

\* row r is a shortest route to subnet s from the entry self
ShortestRoute(db, self, s, row) ==
  LET adv == Advertisers(db, s)
      h   == Min({ Hops(db, self, k) : k \in adv })
  IN  /\ row.dest = s
      /\ row.dist = h
      /\ IF h = 0 THEN row.gw = 0
         ELSE \E g \in 1..Len(db) : \E k \in adv :
                /\ DbEdge(db, self, g)
                /\ Hops(db, self, k) = h
                /\ Hops(db, g, k) = h - 1
                /\ row.gw = db[g].rid

\* C7: when the LSDB describes a connected topology with symmetric
\* adjacencies, a completed generate_rt leaves for every advertised subnet a
\* row with the least hop count to a router advertising it and, as gw, the
\* first router on such a path (0 for the router's own subnets), whatever
\* the order of the LSDB entries.  (Stated for the runs of generate_rt that
\* stay inside the array.)
C7_RoutesAreShortest ==
  ( /\ op.kind = "emit" /\ spf.ran /\ ~ spf.undef
    /\ SymmetricDb(mospf_db) /\ ConnectedDb(mospf_db) )
  => \A s \in Subnets(mospf_db) :
       \E r \in 1..Len(rtable) :
         ShortestRoute(mospf_db, Min(LocalEntries), s, rtable[r])

CopiesTo(out, i, ip) ==
  Cardinality({ n \in 1..Len(out) :
                  out[n].iface = i /\ out[n].pkt.daddr = htonl(ip) })

\* C10: an accepted LSU that arrived on interface I is sent once to each
\* neighbour of every other interface and not at all on I, and every copy
\* has the received LSU ttl minus 1.
C10_FloodOncePerNeighbour ==
  [][ ( /\ op'.kind = "lsu"
        /\ StoredSeq(mospf_db, ntohl(op'.pkt.rid)) < ntohs(op'.pkt.seq) )
      => ( /\ \A i \in 1..Len(instance.iface_list) :
                \A n \in 1..Len(instance.iface_list[i].nbr_list) :
                  CopiesTo(pkts', i,
                           instance.iface_list[i].nbr_list[n].nbr_ip)
                    = IF i = op'.iface THEN 0 ELSE 1
           /\ Len(pkts') = Len(Targets(instance.iface_list, op'.iface, 1))
           /\ \A n \in 1..Len(pkts') :
                /\ pkts'[n].iface # op'.iface
                /\ pkts'[n].pkt.ttl = op'.pkt.ttl - 1 ) ]_vars

\* ------------------------------------------------------------------------
\* mOSPF: Hellos against the one-second ticks of checking_nbr_thread
\* ------------------------------------------------------------------------
\* the neighbours that are heard: <<interface, router id>>
NbrKeys ==
  UNION { { <<i, ntohl(pkt.rid)>> : pkt \in HelloInputs(i) } : i \in 1..2 }

\* the clock of a neighbour that was never heard, or left for more than a
\* tick
Gone == MOSPF_NEIGHBOR_TIMEOUT + 1

InitNbr ==
  /\ instance = mospf_init(R0Ifaces)
  /\ nbr_changed = 0
  /\ left_interval = MOSPF_DEFAULT_LSUINT
  /\ mospf_db = <<>>
  /\ rtable = init_rtable
  /\ spf = NoSpf
  /\ pkts = <<>>
  /\ op = NoOp
  /\ StpOff
  /\ lock = <<>>
  /\ pc = <<>>
  /\ since = [k \in NbrKeys |-> Gone]

\* a Hello restarts the clock of its sender
TimedHello(i, pkt) ==
  /\ HelloStep(i, pkt)
  /\ since' = [since EXCEPT ![<<i, ntohl(pkt.rid)>>] = 0]
  /\ UNCHANGED <<lock, pc>>

\* sleep(1) has passed for every neighbour
TimedTick ==
  /\ TickStep
  /\ since' = [k \in NbrKeys |-> Min({since[k] + 1, Gone})]
  /\ UNCHANGED <<lock, pc>>

NextNbr ==
  \/ \E i \in 1..2 : \E pkt \in HelloInputs(i) : TimedHello(i, pkt)
  \/ TimedTick
  \/ LsuWait
  \/ LsuEmit

SpecNbr == InitNbr /\ [][NextNbr]_vars

\* the entries of neighbour k in the lists of inst
NbrOf(inst, k) ==
  LET l == inst.iface_list[k[1]].nbr_list
  IN  { n \in 1..Len(l) : l[n].nbr_id = k[2] }

AliveOf(inst, k) ==
  inst.iface_list[k[1]].nbr_list[Min(NbrOf(inst, k))].alive

\* C11: under every interleaving of Hellos and ticks a listed neighbour's
\* alive is MOSPF_NEIGHBOR_TIMEOUT minus the ticks since its last Hello, so
\* never above MOSPF_NEIGHBOR_TIMEOUT; it leaves the list at exactly the
\* MOSPF_NEIGHBOR_TIMEOUT-th tick, and that tick takes one off num_nbr for
\* each neighbour it removes and sets nbr_changed
C11_NbrAgesOut ==
  [][ /\ \A k \in NbrKeys :
           /\ Cardinality(NbrOf(instance', k)) <= 1
           /\ (NbrOf(instance', k) = {}) <=>
                (since'[k] >= MOSPF_NEIGHBOR_TIMEOUT)
           /\ NbrOf(instance', k) # {} =>
                /\ AliveOf(instance', k) <= MOSPF_NEIGHBOR_TIMEOUT
                /\ AliveOf(instance', k) =
                     MOSPF_NEIGHBOR_TIMEOUT - since'[k]
           /\ (NbrOf(instance, k) # {} /\ NbrOf(instance', k) = {}) =>
                /\ op'.kind = "age"
                /\ since[k] = MOSPF_NEIGHBOR_TIMEOUT - 1
                /\ since'[k] = MOSPF_NEIGHBOR_TIMEOUT
                /\ nbr_changed' = 1
      /\ op'.kind = "age" =>
           \A i \in 1..2 :
             instance'.iface_list[i].num_nbr =
               instance.iface_list[i].num_nbr
               - Cardinality({ k \in NbrKeys :
                                 /\ k[1] = i
                                 /\ NbrOf(instance, k) # {}
                                 /\ NbrOf(instance', k) = {} })
    ]_vars

\* the tick that removes one neighbour of the second interface while the
\* other one, heard later, stays
C11_Witness ==
  /\ op.kind = "age"
  /\ nbr_changed = 1
  /\ instance.iface_list[2].num_nbr = 1
  /\ \E k, j \in NbrKeys :
       /\ k[1] = 2 /\ j[1] = 2
       /\ since[k] = MOSPF_NEIGHBOR_TIMEOUT
       /\ NbrOf(instance, k) = {}
       /\ since[j] = 1
       /\ NbrOf(instance, j) # {}

\* ------------------------------------------------------------------------
\* Threads and mutexes
\* ------------------------------------------------------------------------
\* a lock call that returns at once, whoever holds the mutex
LockNoWait(t, l) == lock' = [lock EXCEPT ![l] = t]

\* pthread_mutex_lock by thread t returns when mutex l is free.  The
\* mutexes are initialised with default attributes: a thread that locks a
\* mutex it holds itself waits for ever.
pthread_mutex_lock(t, l) ==
  /\ lock[l] = "free"
  /\ lock' = [lock EXCEPT ![l] = t]

pthread_mutex_unlock(t, l) == lock' = [lock EXCEPT ![l] = "free"]

\* a thread at position at of its code; k is the port its loop is at, buf
\* the designated_root it has copied into the BPDU it is building, sig the
\* position of the SIGTERM handler that runs on top of it
At(at, k, buf) == [at |-> at, k |-> k, buf |-> buf, sig |-> "none"]

Idle == At("idle", 0, 0)

\* ------------------------------------------------------------------------
\* SpecThr: the threads of one bridge and SIGTERM
\* ------------------------------------------------------------------------
\* the thread that calls stp_port_handle_packet, and stp_timer_routine
StpThreads == {"rx", "timer"}

\* the BPDUs of the neighbour with the lowest MAC, which names itself or
\* the bridge as root
ThrConfigs ==
  { c \in InjectedConfigs :
      /\ ntohll(c.switch_id) = SwitchId(1)
      /\ ntohll(c.root_id) \in {SwitchId(1), SwitchId(2)} }

InitThr ==
  /\ stp = [b \in {1} |-> stp_init(2, 2)]
  /\ link = [q \in {<<1, 1>>, <<1, 2>>} |-> NoPort]
  /\ chan = [q \in {<<1, 1>>, <<1, 2>>} |-> <<>>]
  /\ rx   = NoRx
  /\ sent = <<>>
  /\ MospfOff
  /\ lock = [l \in {"stp"} |-> "free"]
  /\ pc = [t \in StpThreads |-> Idle]
  /\ since = <<>>

\* exit(0) has not ended the process and no handler runs on top of t
Runs(t) ==
  /\ pc[t].sig = "none"
  /\ \A u \in StpThreads : pc[u].sig # "exited"

\* a thread that does not touch the bridge
Step(t, from, to) ==
  /\ Runs(t)
  /\ pc[t].at = from
  /\ pc' = [pc EXCEPT ![t] = to]

\* a BPDU has arrived: stp_port_handle_packet is called
RxArrive ==
  /\ Step("rx", "idle", At("want", 0, 0))
  /\ UNCHANGED <<stpVars, mospfVars, lock, since>>

RxLock ==
  /\ Step("rx", "want", At("locked", 0, 0))
  /\ pthread_mutex_lock("rx", "stp")
  /\ UNCHANGED <<stpVars, mospfVars, since>>

\* stp_handle_config_packet for the BPDU, which came in on port i
RxHandle(i) ==
  /\ Step("rx", "locked", At("handled", 0, 0))
  /\ \E wire \in ThrConfigs : Handle(1, i, wire)
  /\ UNCHANGED <<link, chan, mospfVars, lock, since>>

RxUnlock ==
  /\ Step("rx", "handled", Idle)
  /\ pthread_mutex_unlock("rx", "stp")
  /\ UNCHANGED <<stpVars, mospfVars, since>>

TimerLock ==
  /\ Step("timer", "idle", At("locked", 0, 0))
  /\ pthread_mutex_lock("timer", "stp")
  /\ UNCHANGED <<stpVars, mospfVars, since>>

\* stp_timer_run_once finds no timer due
TimerIdle ==
  /\ Step("timer", "locked", At("ran", 0, 0))
  /\ UNCHANGED <<stpVars, mospfVars, lock, since>>

\* stp_timer_run_once finds the hello timer due and calls
\* stp_handle_hello_timeout, which starts the loop of stp_send_config
TimerFire ==
  /\ stp[1].hello_timer
  /\ Step("timer", "locked", At("port", 1, 0))
  /\ UNCHANGED <<stpVars, mospfVars, lock, since>>

\* the loop of stp_send_config goes on after port k; after the last port
\* stp_start_timer arms the timer again
Advance(t, k) ==
  IF k < stp[1].nports THEN At("port", k + 1, 0) ELSE At("ran", 0, 0)

\* stp_send_config at port k: a designated port of a bridge that is root or
\* has a root port gets a BPDU, whose root_id is filled in first
HelloRead ==
  /\ Runs("timer")
  /\ pc["timer"].at = "port"
  /\ LET k == pc["timer"].k
     IN  pc' = [pc EXCEPT !["timer"] =
                  IF /\ stp_port_is_designated(stp[1], k)
                     /\ stp_port_send_config(stp[1], k) # <<>>
                  THEN At("cost", k, stp[1].designated_root)
                  ELSE Advance("timer", k)]
  /\ UNCHANGED <<stpVars, mospfVars, lock, since>>

\* stp_port_send_config fills in the other fields and sends the BPDU
HelloSend ==
  /\ Runs("timer")
  /\ pc["timer"].at = "cost"
  /\ LET k == pc["timer"].k
         f == stp_port_send_config(stp[1], k)
     IN  /\ sent' = IF f = <<>> THEN <<>>
                    ELSE << [f[1] EXCEPT !.config.root_id =
                                           htonll(pc["timer"].buf)] >>
         /\ pc' = [pc EXCEPT !["timer"] = At("sent", k, pc["timer"].buf)]
  /\ rx' = NoRx
  /\ UNCHANGED <<stp, link, chan, mospfVars, lock, since>>

HelloNext ==
  /\ Runs("timer")
  /\ pc["timer"].at = "sent"
  /\ pc' = [pc EXCEPT !["timer"] = Advance("timer", pc["timer"].k)]
  /\ UNCHANGED <<stpVars, mospfVars, lock, since>>

TimerUnlock ==
  /\ Step("timer", "ran", Idle)
  /\ pthread_mutex_unlock("timer", "stp")
  /\ UNCHANGED <<stpVars, mospfVars, since>>

\* SIGTERM is delivered to the process; stp_handle_signal runs on thread t,
\* wherever t is
SigTerm(t) ==
  /\ \A u \in StpThreads : pc[u].sig = "none"
  /\ pc' = [pc EXCEPT ![t].sig = "wait"]
  /\ UNCHANGED <<stpVars, mospfVars, lock, since>>

\* stp_dump_state gets stp->lock
DumpLock(t) ==
  /\ pc[t].sig = "wait"
  /\ pthread_mutex_lock(t, "stp")
  /\ pc' = [pc EXCEPT ![t].sig = "dump"]
  /\ UNCHANGED <<stpVars, mospfVars, since>>

\* stp_dump_state has logged the bridge and its ports
DumpUnlock(t) ==
  /\ pc[t].sig = "dump"
  /\ pthread_mutex_unlock(t, "stp")
  /\ pc' = [pc EXCEPT ![t].sig = "dumped"]
  /\ UNCHANGED <<stpVars, mospfVars, since>>

\* exit(0)
Exit(t) ==
  /\ pc[t].sig = "dumped"
  /\ pc' = [pc EXCEPT ![t].sig = "exited"]
  /\ UNCHANGED <<stpVars, mospfVars, lock, since>>

RxStep == RxArrive \/ RxLock \/ (\E i \in 1..2 : RxHandle(i)) \/ RxUnlock

TimerStep ==
  \/ TimerLock
  \/ TimerIdle
  \/ TimerFire
  \/ HelloRead
  \/ HelloSend
  \/ HelloNext
  \/ TimerUnlock

HandlerStep == \E t \in StpThreads : DumpLock(t) \/ DumpUnlock(t) \/ Exit(t)

NextThr ==
  \/ RxStep
  \/ TimerStep
  \/ \E t \in StpThreads : SigTerm(t)
  \/ HandlerStep

SpecThr == InitThr /\ [][NextThr]_vars

\* every thread goes on when it can, and the handler gets the mutex if it is
\* free again and again
FairSpecThr ==
  /\ SpecThr
  /\ WF_vars(RxLock \/ (\E i \in 1..2 : RxHandle(i)) \/ RxUnlock)
  /\ WF_vars(TimerStep)
  /\ SF_vars(HandlerStep)

Signalled == \E t \in StpThreads : pc[t].sig # "none"

Exited == \E t \in StpThreads : pc[t].sig = "exited"

\* C12: after SIGTERM the handler finishes the dump and the process exits,
\* whichever thread the handler runs on and wherever that thread is
C12_SigtermExits == Signalled ~> Exited

\* ------------------------------------------------------------------------
\* SpecPair: two bridges A (1) and B (2) with two ports each and one link,
\* from a port of A to a port of B; both start as root, A has the lower MAC
\* ------------------------------------------------------------------------
PairPorts == {<<1, 1>>, <<1, 2>>, <<2, 1>>, <<2, 2>>}

PairLink(pa, pb) ==
  [q \in PairPorts |->
     CASE q = <<1, pa>> -> <<2, pb>>
       [] q = <<2, pb>> -> <<1, pa>>
       [] OTHER         -> NoPort]

PairMacs == { m \in MacIds \X MacIds : m[1] < m[2] }

InitPair ==
  /\ \E m \in PairMacs : stp = [b \in 1..2 |-> stp_init(m[b], 2)]
  /\ \E pa, pb \in 1..2 : link = PairLink(pa, pb)
  /\ chan = [q \in PairPorts |-> <<>>]
  /\ rx   = NoRx
  /\ sent = <<>>
  /\ MospfOff
  /\ AuxOff

\* a hello period is long against the time a BPDU is on the wire: the timers
\* fire when the BPDUs sent before have been handled
PairHello(b) ==
  /\ \A q \in PairPorts : chan[q] = <<>>
  /\ HelloTimeout(b)

NextPair ==
  \/ \E q \in PairPorts : Deliver(q[1], q[2])
  \/ \E b \in 1..2 : PairHello(b)

SpecPair == InitPair /\ [][NextPair]_vars

\* every frame on the wire is delivered and every armed hello timer fires
FairSpecPair ==
  /\ SpecPair
  /\ \A q \in PairPorts : SF_vars(Deliver(q[1], q[2]))
  /\ \A b \in 1..2 : SF_vars(PairHello(b))

PairSettled ==
  /\ stp_is_root_switch(stp[1])
  /\ stp[1].root_port = 0
  /\ stp[2].designated_root = stp[1].switch_id
  /\ \E q \in PairPorts : q[1] = 2 /\ link[q] # NoPort /\ stp[2].root_port = q[2]
  /\ ~ stp[2].hello_timer

\* C13: two bridges on one link, A.switch_id < B.switch_id, both starting as
\* root: every run reaches and stays in the state where A is root without a
\* root port and B has A as designated_root, the link port as root_port and
\* its hello timer stopped
C13_PairSettles == <>[]PairSettled

\* ------------------------------------------------------------------------
\* SpecDb: the LSDB of R0 under its own emissions and received LSUs, among
\* them R0's own LSUs flooded back to it
\* ------------------------------------------------------------------------
\* the self-LSU of R0 with sequence number seq as R1 floods it back
EchoLsu(seq) ==
  [LsuPacket(Rid(0), seq, MOSPF_MAX_LSU_TTL - 2,
             Nadv(R0Ifaces, 1), LsaList(R0Ifaces, 1))
     EXCEPT !.saddr = htonl(LeftIp(1)),
            !.daddr = htonl(RightIp(0)),
            !.shost = 3]

DbLsus ==
  { EchoLsu(seq) : seq \in 0..MaxEmit }
    \cup { LineLsu(r, 3, seq, MOSPF_MAX_LSU_TTL - r) : r \in 1..2, seq \in 0..1 }

NextDb ==
  \/ \E pkt \in HelloInputs(1) : RecvHello(1, pkt)
  \/ LsuWait
  \/ LsuEmit
  \/ \E pkt \in DbLsus : RecvLsu(1, pkt)

SpecDb == InitMospf /\ [][NextDb]_vars

\* C14: the LSDB holds at most one entry per rid, whatever the order of the
\* emitter's upserts and the lookup-or-inserts of handle_mospf_lsu, LSUs with
\* the local router_id as rid included
C14_OneEntryPerRid ==
  \A j, k \in 1..Len(mospf_db) :
    mospf_db[j].rid = mospf_db[k].rid => j = k

\* an LSU with the local rid has just been handled after an emission, and
\* the LSDB holds the local entry next to another router's
C14_Witness ==
  /\ op.kind = "lsu"
  /\ ntohl(op.pkt.rid) = instance.router_id
  /\ instance.sequence_num >= 1
  /\ Len(mospf_db) >= 2
  /\ \E k \in 1..Len(mospf_db) : mospf_db[k].rid = instance.router_id

\* ------------------------------------------------------------------------
\* SpecSeq: R0 emits self-LSUs for as long as it runs
\* ------------------------------------------------------------------------
EmitAny == EmitStep /\ UNCHANGED auxVars

NextSeq ==
  \/ \E pkt \in HelloInputs(1) : RecvHello(1, pkt)
  \/ LsuWait
  \/ EmitAny

SpecSeq == InitMospf /\ [][NextSeq]_vars

\* C15: instance.sequence_num never decreases, every emission adds exactly
\* one to it and sends it as the seq of the self-LSU, so every self-LSU has a
\* seq above the seq of every self-LSU sent before, however many were sent
C15_SeqStrictlyIncreases ==
  [][ /\ instance'.sequence_num >= instance.sequence_num
      /\ op'.kind = "emit" =>
           /\ instance'.sequence_num = instance.sequence_num + 1
           /\ ntohs(op'.lsu.seq) = instance'.sequence_num
           /\ ntohs(op'.lsu.seq) > instance.sequence_num
    ]_vars

\* C16: the hello timer of a bridge is stopped exactly once, by the BPDU that
\* moves the bridge from root to non-root: it is not stopped by a BPDU that
\* leaves the bridge root, a stopped timer is not armed again, and a bridge
\* that is root has its timer armed, so that it sends config BPDUs on every
\* expiry
C16_TimerStopsWithRootRole ==
  [][ \A b \in DOMAIN stp :
        /\ (stp[b].hello_timer /\ ~ stp'[b].hello_timer) =>
             /\ rx'.bridge = b
             /\ stp_is_root_switch(stp[b])
             /\ ~ stp_is_root_switch(stp'[b])
        /\ ~ stp[b].hello_timer => ~ stp'[b].hello_timer
        /\ (stp_is_root_switch(stp[b]) /\ ~ stp_is_root_switch(stp'[b])) =>
             ~ stp'[b].hello_timer
        /\ (stp_is_root_switch(stp'[b]) /\ stp[b].hello_timer) =>
             stp'[b].hello_timer
    ]_vars

\* the positions at which a thread reads or writes bridge or port fields
Critical == {"locked", "handled", "port", "cost", "sent", "ran"}

\* the BPDU the hello callback has just sent is the one the bridge, as it is,
\* sends from that port, and the root_id copied for the next one is current
HelloIsSnapshot ==
  /\ pc["timer"].at = "sent" =>
       sent = stp_port_send_config(stp[1], pc["timer"].k)
  /\ pc["timer"].at = "cost" => pc["timer"].buf = stp[1].designated_root

\* C17: the receive path, the timer thread and the state dump touch bridge
\* and port fields only while they hold stp->lock, so a BPDU is never handled
\* in the middle of a hello emission: no BPDU sent by the hello callback mixes
\* bridge fields from before and after a handled BPDU
C17_FieldsUnderLock ==
  /\ \A t \in StpThreads :
       (pc[t].at \in Critical \/ pc[t].sig = "dump") => lock["stp"] = t
  /\ HelloIsSnapshot

\* the hello callback has sent the BPDU of the second port while a received
\* BPDU waits for the mutex
C17_Witness ==
  /\ pc["timer"].at = "sent"
  /\ pc["timer"].k = 2
  /\ sent # <<>>
  /\ pc["rx"].at = "want"
  /\ lock["stp"] = "timer"

\* ------------------------------------------------------------------------
\* SpecLock: the four mOSPF threads of R0 with mospf_lock and rtable_lock
\* ------------------------------------------------------------------------
\* sending_mospf_hello_thread, checking_nbr_thread, sending_mospf_lsu_thread
\* and the thread that calls handle_mospf_packet
MospfThreads == {"hello", "nbr", "lsu", "rx"}

\* (++time % 4) == 0 in sending_mospf_hello_thread
PrintEvery == 4

InitLock ==
  /\ instance = mospf_init(R0Ifaces)
  /\ nbr_changed = 0
  /\ left_interval = MOSPF_DEFAULT_LSUINT
  /\ mospf_db = <<>>
  /\ rtable = init_rtable
  /\ spf = NoSpf
  /\ pkts = <<>>
  /\ op = NoOp
  /\ StpOff
  /\ lock = [l \in {"mospf", "rtable"} |-> "free"]
  /\ pc = [t \in MospfThreads |-> Idle]
  /\ since = <<>>

\* the run is followed for MaxEmit emissions, and ends when generate_rt
\* has faulted
Followed == instance.sequence_num < MaxEmit /\ ~ spf.fault

\* thread t goes from position from to position to, keeping its counter
Go(t, from, to) ==
  /\ Followed
  /\ pc[t].at = from
  /\ pc' = [pc EXCEPT ![t].at = to]

Quietly == UNCHANGED <<stpVars, mospfVars, since>>

\* sleep(MOSPF_DEFAULT_HELLOINT) is over
HelloLock ==
  /\ Go("hello", "idle", "locked")
  /\ pthread_mutex_lock("hello", "mospf")
  /\ Quietly

\* the Hellos are sent; every fourth time the routing table is printed
HelloSent ==
  /\ Followed
  /\ pc["hello"].at = "locked"
  /\ LET time == (pc["hello"].k + 1) % PrintEvery
     IN  pc' = [pc EXCEPT !["hello"] =
                  At(IF time = 0 THEN "print" ELSE "done", time, 0)]
  /\ UNCHANGED lock
  /\ Quietly

PrintLock ==
  /\ Go("hello", "print", "printing")
  /\ pthread_mutex_lock("hello", "rtable")
  /\ Quietly

\* print_rtable has returned
PrintUnlock ==
  /\ Go("hello", "printing", "done")
  /\ pthread_mutex_unlock("hello", "rtable")
  /\ Quietly

HelloUnlock ==
  /\ Go("hello", "done", "idle")
  /\ pthread_mutex_unlock("hello", "mospf")
  /\ Quietly

\* sleep(1) is over
NbrLock ==
  /\ Go("nbr", "idle", "locked")
  /\ pthread_mutex_lock("nbr", "mospf")
  /\ Quietly

NbrAge ==
  /\ Go("nbr", "locked", "done")
  /\ TickStep
  /\ UNCHANGED <<lock, since>>

NbrUnlock ==
  /\ Go("nbr", "done", "idle")
  /\ pthread_mutex_unlock("nbr", "mospf")
  /\ Quietly

LsuLock ==
  /\ Go("lsu", "idle", "locked")
  /\ pthread_mutex_lock("lsu", "mospf")
  /\ Quietly

\* the wait loop goes round: unlock, sleep(1)
LsuSleep ==
  /\ Go("lsu", "locked", "sleep")
  /\ WaitStep
  /\ pthread_mutex_unlock("lsu", "mospf")
  /\ UNCHANGED since

LsuWake ==
  /\ Go("lsu", "sleep", "locked")
  /\ pthread_mutex_lock("lsu", "mospf")
  /\ Quietly

\* the wait loop ends
LsuDue ==
  /\ Go("lsu", "locked", "due")
  /\ nbr_changed # 0 \/ left_interval - 1 = 0
  /\ UNCHANGED lock
  /\ Quietly

\* nbr_changed is cleared, the self-LSU is built, stored and sent
LsuSend ==
  /\ Go("lsu", "due", "sent")
  /\ \E r \in {sending_mospf_lsu(instance, mospf_db)} :
       /\ instance' = r.instance
       /\ mospf_db' = r.mospf_db
       /\ pkts' = r.pkts
       /\ op' = [kind |-> "emit", lsu |-> r.lsu]
  /\ nbr_changed' = 0
  /\ left_interval' = MOSPF_DEFAULT_LSUINT
  /\ UNCHANGED <<rtable, spf, stpVars, lock, since>>

\* generate_rt is called and gets rtable_lock
RtLock ==
  /\ Go("lsu", "sent", "rt")
  /\ pthread_mutex_lock("lsu", "rtable")
  /\ Quietly

\* generate_rt up to its unlock, by either path
RtBuild ==
  /\ Go("lsu", "rt", "built")
  /\ \E g \in generate_rt(mospf_db, instance) :
       /\ rtable' = g.rtable
       /\ spf' = g.spf
  /\ UNCHANGED <<instance, nbr_changed, left_interval, mospf_db, pkts, op,
                 stpVars, lock, since>>

\* a generate_rt that returns with rtable_lock held
RtReturn ==
  /\ Go("lsu", "built", "done")
  /\ UNCHANGED lock
  /\ Quietly

RtUnlock ==
  /\ Go("lsu", "built", "done")
  /\ pthread_mutex_unlock("lsu", "rtable")
  /\ Quietly

LsuUnlock ==
  /\ Go("lsu", "done", "idle")
  /\ pthread_mutex_unlock("lsu", "mospf")
  /\ Quietly

\* a Hello or an LSU has arrived: its handler locks mospf_lock
PktLock ==
  /\ Go("rx", "idle", "locked")
  /\ pthread_mutex_lock("rx", "mospf")
  /\ Quietly

PktHello ==
  /\ Go("rx", "locked", "done")
  /\ \E pkt \in HelloInputs(1) : HelloStep(1, pkt)
  /\ UNCHANGED <<lock, since>>

PktLsu ==
  /\ Go("rx", "locked", "done")
  /\ LsuStep(1, LineLsu(1, 3, 1, MOSPF_MAX_LSU_TTL))
  /\ UNCHANGED <<lock, since>>

PktUnlock ==
  /\ Go("rx", "done", "idle")
  /\ pthread_mutex_unlock("rx", "mospf")
  /\ Quietly

NextLock ==
  \/ HelloLock \/ HelloSent \/ PrintLock \/ PrintUnlock \/ HelloUnlock
  \/ NbrLock \/ NbrAge \/ NbrUnlock
  \/ LsuLock \/ LsuSleep \/ LsuWake \/ LsuDue \/ LsuSend
  \/ RtLock \/ RtBuild \/ RtUnlock \/ LsuUnlock
  \/ PktLock \/ PktHello \/ PktLsu \/ PktUnlock

SpecLock == InitLock /\ [][NextLock]_vars

\* the positions at which a thread is about to call
\* pthread_mutex_lock(&mospf_lock)
WantsMospf == {"idle", "sleep"}

\* C18: a thread that holds rtable_lock holds mospf_lock, no thread asks for
\* mospf_lock while it holds rtable_lock, generate_rt runs with both and has
\* released rtable_lock when it returns, and while the run goes on some
\* thread can always take a step
C18_LockOrder ==
  /\ lock["rtable"] # "free" => lock["mospf"] = lock["rtable"]
  /\ \A t \in MospfThreads : pc[t].at \in WantsMospf => lock["rtable"] # t
  /\ pc["lsu"].at \in {"rt", "built"} =>
       lock["rtable"] = "lsu" /\ lock["mospf"] = "lsu"
  /\ pc["lsu"].at = "done" => lock["rtable"] = "free"
  /\ Followed => ENABLED NextLock

\* generate_rt has built the table with both mutexes held, while the Hello
\* thread is about to start the round in which it prints the table
C18_Witness ==
  /\ pc["lsu"].at = "built"
  /\ rtable # <<>>
  /\ lock["mospf"] = "lsu"
  /\ lock["rtable"] = "lsu"
  /\ pc["hello"].at = "idle"
  /\ pc["hello"].k = PrintEvery - 1

\* ------------------------------------------------------------------------
\* SpecRow: the line of SpecRT, where R1's Hello may carry a mask that is
\* not the mask of the link
\* ------------------------------------------------------------------------
HostMask == U32Mod - 1

RowHellos ==
  HelloInputs(1) \cup { HelloPacket(Rid(1), LeftIp(1), HostMask) }

NextRow ==
  \/ \E pkt \in RowHellos : RecvHello(1, pkt)
  \/ LsuWait
  \/ LsuEmit
  \/ \E pkt \in LineLsus : RecvLsu(1, pkt)

SpecRow == InitMospf /\ [][NextRow]_vars

\* C19: a row whose interface lookup fails is skipped by generate_rt: the
\* table never holds a row without an interface, neither a row inserted
\* with none nor an older row left changed with none (runs of generate_rt
\* with undefined behaviour are left aside)
C19_NoRowWithoutIface ==
  ~ spf.undef => \A r \in 1..Len(rtable) : rtable[r].iface # 0

\* the LSDB with every sequence number forgotten
NoSeq(db) == [k \in 1..Len(db) |-> [db[k] EXCEPT !.seq = 0]]

PriorityOverflows(config, p) ==
  LET t1 == ToInt((config.root_id - p.designated_root) % U64Mod)
      t2 == ToInt((config.root_path_cost - p.designated_cost) % U32Mod)
      t3 == ToInt((config.switch_id - p.designated_switch) % U64Mod)
  IN  \/ 8 * Abs(t1) >= IntMod \div 2
      \/ 4 * Abs(t2) >= IntMod \div 2
      \/ 2 * Abs(t3) >= IntMod \div 2

Sign(n) == IF n < 0 THEN -1 ELSE IF n > 0 THEN 1 ELSE 0

LexSign(x, y) == IF LexLess(x, y) THEN -1 ELSE IF LexLess(y, x) THEN 1 ELSE 0

\* C21: get_port_priority(config, p) is negative, zero or positive exactly
\* when the quadruple of the BPDU is lexicographically below, equal to or
\* above the quadruple stored on the port, the fields compared as unsigned
\* integers of their widths (differences that overflow the int arithmetic
\* are left aside)
C21_PrioritySignIsLexOrder ==
  [][ rx'.bridge # 0 =>
      LET p == stp[rx'.bridge].ports[rx'.port]
      IN  ~ PriorityOverflows(rx'.config, p) =>
            Sign(get_port_priority(rx'.config, p)) =
              LexSign(ConfigQuad(rx'.config), PortQuad(p)) ]_vars

\* RtBuild is enabled exactly where the emitter stands at "rt" in a followed
\* run (generate_rt always has an outcome), and it is the only step from
\* "rt" to "built"
RtBuildDue == Followed /\ pc["lsu"].at = "rt"

RtBuilt == pc["lsu"].at = "rt" /\ pc'["lsu"].at = "built"

\* the threads are scheduled: a thread inside its critical section goes on,
\* and the emitter gets mospf_lock if it is free again and again.  The last
\* conjunct is WF_vars(RtBuild), written with RtBuildDue for ENABLED
FairSpecLock ==
  /\ SpecLock
  /\ WF_vars(HelloSent \/ PrintLock \/ PrintUnlock \/ HelloUnlock)
  /\ WF_vars(NbrAge \/ NbrUnlock)
  /\ WF_vars(PktHello \/ PktLsu \/ PktUnlock)
  /\ SF_vars(LsuLock \/ LsuSleep \/ LsuWake \/ LsuDue \/ LsuSend
               \/ RtLock \/ RtUnlock \/ LsuUnlock)
  /\ ([]<>(~ RtBuildDue) \/ []<><<RtBuilt>>_vars)

\* the neighbours of every interface, in list order
NbrIds(inst) ==
  [i \in DOMAIN inst.iface_list |->
     [n \in DOMAIN inst.iface_list[i].nbr_list |->
        inst.iface_list[i].nbr_list[n].nbr_id]]

\* the emitter has just cleared nbr_changed and sent a self-LSU whose LSAs
\* are those of the neighbour lists as they are
Emitted ==
  /\ pc["lsu"].at = "sent"
  /\ nbr_changed = 0
  /\ op.kind = "emit"
  /\ op.lsu.lsas = [n \in 1..Len(LsaList(instance.iface_list, 1)) |->
                      WireLsa(LsaList(instance.iface_list, 1)[n])]

\* C22: every insertion or removal of a neighbour sets nbr_changed, and a set
\* nbr_changed is followed, when the threads are scheduled fairly, by an
\* emission whose LSAs are those of the neighbour lists at the moment the
\* flag is cleared; only the emitter clears the flag, once per emission
C22_ChangeIsEmitted ==
  /\ [][ /\ NbrIds(instance') # NbrIds(instance) => nbr_changed' = 1
         /\ (nbr_changed # 0 /\ nbr_changed' = 0) =>
              (pc["lsu"].at = "due" /\ Emitted')
         /\ (pc["lsu"].at = "due" /\ pc'["lsu"].at = "sent") => Emitted'
       ]_vars
  /\ (nbr_changed # 0) ~> Emitted

\* a neighbour was inserted and the emitter has sent the self-LSU that
\* lists it
C22_Witness ==
  /\ Emitted
  /\ instance.iface_list[1].nbr_list # <<>>
  /\ \E n \in 1..Len(op.lsu.lsas) : ntohl(op.lsu.lsas[n].rid) = Rid(1)

C26_RootPortNotDesignated ==
  \A b \in DOMAIN stp :
    stp[b].root_port # 0 =>
      /\ ~ stp_port_is_designated(stp[b], stp[b].root_port)
      /\ TimesSentFrom(sent, stp[b].root_port) = 0

\* C27: every designated port stores the designated_root and the
\* root_path_cost of its bridge, after any sequence of better, equal and
\* worse BPDUs
C27_DesignatedPortsFollowBridge ==
  \A b \in DOMAIN stp :
    \A i \in 1..stp[b].nports :
      stp_port_is_designated(stp[b], i) =>
        /\ stp[b].ports[i].designated_root = stp[b].designated_root
        /\ stp[b].ports[i].designated_cost = stp[b].root_path_cost

\* ------------------------------------------------------------------------
\* mOSPF claims: the self-LSU, flooding, the LSDB entries
\* ------------------------------------------------------------------------
\* how many LSAs of the list are the LSA a
TimesIn(lsas, a) == Cardinality({ n \in 1..Len(lsas) : lsas[n] = a })

StubLsa(f) == [subnet |-> And32(f.ip, f.mask), mask |-> f.mask, rid |-> 0]

NbrLsa(x) ==
  [subnet |-> And32(x.nbr_ip, x.nbr_mask), mask |-> x.nbr_mask,
   rid |-> x.nbr_id]

\* the LSAs the self-LSU owes to interface f
OwedLsas(f) ==
  IF f.nbr_list = <<>> THEN { StubLsa(f) }
  ELSE { NbrLsa(f.nbr_list[n]) : n \in 1..Len(f.nbr_list) }

RECURSIVE SumOwed(_, _)
SumOwed(ifaces, k) ==
  IF k > Len(ifaces) THEN 0
  ELSE Cardinality(OwedLsas(ifaces[k])) + SumOwed(ifaces, k + 1)

\* C23: the LSAs of every self-LSU are, for each interface, one stub LSA
\* (ip & mask, mask, 0) if it has no neighbour and else one LSA
\* (nbr_ip & nbr_mask, nbr_mask, nbr_id) per neighbour, and nothing else; the
\* advertised nadv, counted from num_nbr, is the number of LSAs written
C23_SelfLsuListsNeighbours ==
  [][ op'.kind = "emit" =>
      LET lsas == [n \in 1..Len(op'.lsu.lsas) |-> HostLsa(op'.lsu.lsas[n])]
          fs   == instance.iface_list
      IN  /\ \A i \in 1..Len(fs) :
               \A a \in OwedLsas(fs[i]) : TimesIn(lsas, a) = 1
          /\ Len(lsas) = SumOwed(fs, 1)
          /\ ntohl(op'.lsu.nadv) = Len(lsas)
          /\ \A i \in 1..Len(fs) : fs[i].num_nbr = Len(fs[i].nbr_list)
    ]_vars

\* an emission with no neighbour on the first interface and two on the
\* second, one of them heard after the other had aged
C23_Witness ==
  /\ op.kind = "emit"
  /\ instance.iface_list[1].nbr_list = <<>>
  /\ Len(instance.iface_list[2].nbr_list) = 2
  /\ instance.iface_list[2].nbr_list[1].alive
       # instance.iface_list[2].nbr_list[2].alive
  /\ Len(op.lsu.lsas) = 3

\* C24: every copy of a received LSU that is flooded carries the MAC of the
\* interface it leaves by as Ethernet source, that interface's IP as
\* ip.saddr and the IP of a neighbour of that interface as ip.daddr, the
\* first copy included
C24_FloodedCopyIsReaddressed ==
  [][ op'.kind = "lsu" =>
      \A n \in 1..Len(pkts') :
        LET f == instance.iface_list[pkts'[n].iface]
        IN  /\ pkts'[n].pkt.shost = f.mac
            /\ pkts'[n].pkt.saddr = htonl(f.ip)
            /\ \E m \in 1..Len(f.nbr_list) :
                 pkts'[n].pkt.daddr = htonl(f.nbr_list[m].nbr_ip) ]_vars

\* the entries of the LSDB written for the local router
OwnEntries(db) ==
  SelectSeq(db, LAMBDA e : e.rid = instance.router_id)

\* C28: the LSDB entry of the local router is written by the emitter only:
\* handle_mospf_lsu neither writes it nor floods an LSU whose rid is the
\* local router_id, in particular when a neighbour floods the router's own
\* LSU back (an LSU the router has emitted: its seq is at most sequence_num)
C28_OwnEntryOnlyByEmitter ==
  [][ ( /\ op'.kind = "lsu"
        /\ ntohl(op'.pkt.rid) = instance.router_id
        /\ 1 <= ntohs(op'.pkt.seq)
        /\ ntohs(op'.pkt.seq) <= instance.sequence_num )
      => ( /\ OwnEntries(mospf_db') = OwnEntries(mospf_db)
           /\ pkts' = <<>> ) ]_vars

\* C29: whenever mospf_lock is free, every LSDB entry has a defined nadv and
\* an array of exactly nadv elements, the entries included that
\* handle_mospf_lsu creates for an unknown rid when the seq check then
\* discards the LSU
C29_EntriesAreWhole ==
  (\A l \in DOMAIN lock : l = "mospf" => lock[l] = "free")
    => \A k \in 1..Len(mospf_db) :
         /\ mospf_db[k].defined
         /\ Len(mospf_db[k].array) = mospf_db[k].nadv

====
